---------------------------- MODULE Spec2Model ----------------------------
(***************************************************************************)
(* Bezier curves of src/src/bezier.rs (quadratic and cubic, the 2D         *)
(* instantiation): evaluation, derivative, split, basis matrix, length by  *)
(* discretization and the point-projection search.                         *)
(*                                                                         *)
(* The scalar type T: Float is modelled by exact extended rationals        *)
(* <<n, d>> in lowest terms with d >= 0.  d = 0 encodes the IEEE special   *)
(* values: <<1,0>> = +inf, <<-1,0>> = -inf, <<0,0>> = NaN.  Arithmetic is  *)
(* exact (no rounding), except that halving below the smallest positive    *)
(* value of the format underflows to zero (FHalf).                         *)
(***************************************************************************)
EXTENDS Integers, Sequences, FiniteSets, TLC

----------------------------------------------------------------------------
(* Bounds of the model *)

\* the smallest positive scalar of the modelled float format is 2^-MinExp
MinExp == 3

\* largest small step count drawn for the search and the length estimate
MaxSteps == 2

\* cap of the halving-round counter (the counter saturates there)
MaxCount == 6

\* steps: u16, so steps + 1 is computed modulo 2^16
U16Modulus == 65536

\* step_count: u32, kept as <<high, low>> halves of 16 bits each
U32Half == 65536

----------------------------------------------------------------------------
(* Scalars: T: Float *)

Abs(n) == IF n < 0 THEN -n ELSE n

Sign(n) == IF n < 0 THEN -1 ELSE IF n > 0 THEN 1 ELSE 0

RECURSIVE GCD(_, _)
GCD(a, b) == IF b = 0 THEN a ELSE GCD(b, a % b)

LCM(a, b) == (a \div GCD(a, b)) * b

RECURSIVE Pow2(_)
Pow2(k) == IF k = 0 THEN 1 ELSE 2 * Pow2(k - 1)

\* the scalar n/d in canonical form
Frac(n, d) ==
    IF d = 0 THEN <<Sign(n), 0>>
    ELSE LET g == GCD(Abs(n), Abs(d))
             s == IF d < 0 THEN -1 ELSE 1
         IN  <<(s * n) \div g, (s * d) \div g>>

FromInt(n) == <<n, 1>>

Zero == FromInt(0)

One == FromInt(1)

Inf == <<1, 0>>

NaN == <<0, 0>>

IsNaN(a) == a = NaN

IsFinite(a) == a[2] # 0

FNeg(a) == <<-a[1], a[2]>>

FAdd(a, b) ==
    IF IsNaN(a) \/ IsNaN(b) THEN NaN
    ELSE IF ~IsFinite(a) /\ ~IsFinite(b) THEN (IF a = b THEN a ELSE NaN)
    ELSE IF ~IsFinite(a) THEN a
    ELSE IF ~IsFinite(b) THEN b
    ELSE LET m == LCM(a[2], b[2])
         IN  Frac(a[1] * (m \div a[2]) + b[1] * (m \div b[2]), m)

FSub(a, b) == FAdd(a, FNeg(b))

FMul(a, b) == Frac(a[1] * b[1], a[2] * b[2])

FRecip(a) ==
    IF a[1] = 0 THEN (IF a[2] = 0 THEN NaN ELSE Inf)
    ELSE IF a[1] < 0 THEN <<-a[2], -a[1]>>
    ELSE <<a[2], a[1]>>

FDiv(a, b) == FMul(a, FRecip(b))

\* a < b; false when either side is NaN
FLt(a, b) ==
    IF IsNaN(a) \/ IsNaN(b) THEN FALSE
    ELSE IF ~IsFinite(a) \/ ~IsFinite(b)
         THEN a # b /\ (a = FNeg(Inf) \/ b = Inf)
    ELSE LET m == LCM(a[2], b[2])
         IN  a[1] * (m \div a[2]) < b[1] * (m \div b[2])

\* a >= b; false when either side is NaN
FGe(a, b) == ~IsNaN(a) /\ ~IsNaN(b) /\ ~FLt(a, b)

\* mutant of FHalf: divides by 1 + 1 + 1
FHalf_ByThree(h) ==
    LET q == FDiv(h, FAdd(FAdd(One, One), One))
    IN  IF IsFinite(q) /\ q[1] # 0 /\ FLt(<<Abs(q[1]), q[2]>>, <<1, Pow2(MinExp)>>)
        THEN Zero
        ELSE q

\* h / (1 + 1): exact, except that a result below 2^-MinExp underflows to 0
FHalf(h) ==
    LET q == FDiv(h, FAdd(One, One))
    IN  IF IsFinite(q) /\ q[1] # 0 /\ FLt(<<Abs(q[1]), q[2]>>, <<1, Pow2(MinExp)>>)
        THEN Zero
        ELSE q

\* the integer whose square is n, or -1 when n is no perfect square
RECURSIVE IRoot(_, _)
IRoot(n, r) == IF r * r = n THEN r ELSE IF r * r > n THEN -1 ELSE IRoot(n, r + 1)

\* sqrt: a scalar when the root is rational, and otherwise the exact surd
\* <<n, d, 2>> standing for sqrt(n/d), a positive finite irrational
FSqrt(a) ==
    IF ~IsFinite(a) THEN (IF a = Inf THEN Inf ELSE NaN)
    ELSE IF a[1] < 0 THEN NaN
    ELSE LET rn == IRoot(a[1], 0)
             rd == IRoot(a[2], 0)
         IN  IF rn >= 0 /\ rd >= 0 THEN <<rn, rd>> ELSE <<a[1], a[2], 2>>

IsSurd(m) == Len(m) = 3

----------------------------------------------------------------------------
(* Points: Vec2<T> *)

Vec2(x, y) == <<x, y>>

VAdd(p, q) == <<FAdd(p[1], q[1]), FAdd(p[2], q[2])>>

VSub(p, q) == <<FSub(p[1], q[1]), FSub(p[2], q[2])>>

VScale(p, k) == <<FMul(p[1], k), FMul(p[2], k)>>

dot(p, q) == FAdd(FMul(p[1], q[1]), FMul(p[2], q[2]))

distance_squared(p, q) == LET v == VSub(p, q) IN dot(v, v)

magnitude(p) == FSqrt(dot(p, p))

\* a component divided by a magnitude; by a surd <<n, d, 2>> it is the exact
\* quotient <<c, <<n, d>>, 2, 2>> standing for c / sqrt(n/d), a finite real
SDiv(c, m) == IF IsSurd(m) THEN <<c, <<m[1], m[2]>>, 2, 2>> ELSE FDiv(c, m)

normalized(p) == LET m == magnitude(p) IN <<SDiv(p[1], m), SDiv(p[2], m)>>

----------------------------------------------------------------------------
(* Curves *)

IsQuadratic(c) == DOMAIN c = {"start", "ctrl", "end"}

QuadraticBezier_evaluate(self, t) ==
    LET l == One
        two == FAdd(l, l)
    IN  VAdd(VAdd(VScale(VScale(self.start, FSub(l, t)), FSub(l, t)),
                  VScale(VScale(VScale(self.ctrl, two), FSub(l, t)), t)),
             VScale(VScale(self.end, t), t))

QuadraticBezier_evaluate_derivative(self, t) ==
    LET l == One
        n == FAdd(l, l)
    IN  VAdd(VScale(VScale(VSub(self.ctrl, self.start), FSub(l, t)), n),
             VScale(VScale(VSub(self.end, self.ctrl), t), n))

\* mutant of QuadraticBezier_from_line_segment: the control point on the far end
QuadraticBezier_from_line_segment_CtrlAtB(line) ==
    [start |-> line.a, ctrl |-> line.b, end |-> line.b]

QuadraticBezier_from_line_segment(line) ==
    [start |-> line.a, ctrl |-> line.a, end |-> line.b]

QuadraticBezier_matrix ==
    LET zero == Zero
        one == One
        two == FAdd(one, one)
    IN  << <<one, zero, zero>>,
           <<FNeg(two), two, zero>>,
           <<one, FNeg(two), one>> >>

\* mutant of QuadraticBezier_split: l - t for t - l in the second control point
QuadraticBezier_split_SignSlip(self, t) ==
    LET l == One
        two == FAdd(l, l)
        tl == FSub(t, l)
        first == [
            start |-> self.start,
            ctrl  |-> VSub(VScale(self.ctrl, t), VScale(self.start, tl)),
            end   |-> VAdd(VSub(VScale(VScale(self.end, t), t),
                                VScale(VScale(VScale(self.ctrl, two), t), tl)),
                           VScale(VScale(self.start, tl), tl))]
        second == [
            start |-> VAdd(VSub(VScale(VScale(self.end, t), t),
                                VScale(VScale(VScale(self.ctrl, two), t), tl)),
                           VScale(VScale(self.start, tl), tl)),
            ctrl  |-> VSub(VScale(self.end, t), VScale(self.ctrl, FSub(l, t))),
            end   |-> self.end]
    IN  <<first, second>>

QuadraticBezier_split(self, t) ==
    LET l == One
        two == FAdd(l, l)
        tl == FSub(t, l)
        first == [
            start |-> self.start,
            ctrl  |-> VSub(VScale(self.ctrl, t), VScale(self.start, tl)),
            end   |-> VAdd(VSub(VScale(VScale(self.end, t), t),
                                VScale(VScale(VScale(self.ctrl, two), t), tl)),
                           VScale(VScale(self.start, tl), tl))]
        second == [
            start |-> VAdd(VSub(VScale(VScale(self.end, t), t),
                                VScale(VScale(VScale(self.ctrl, two), t), tl)),
                           VScale(VScale(self.start, tl), tl)),
            ctrl  |-> VSub(VScale(self.end, t), VScale(self.ctrl, tl)),
            end   |-> self.end]
    IN  <<first, second>>

CubicBezier_evaluate(self, t) ==
    LET l == One
        three == FAdd(FAdd(l, l), l)
        lt == FSub(l, t)
    IN  VAdd(VAdd(VAdd(
            VScale(VScale(VScale(self.start, lt), lt), lt),
            VScale(VScale(VScale(VScale(self.ctrl0, three), lt), lt), t)),
            VScale(VScale(VScale(VScale(self.ctrl1, three), lt), t), t)),
            VScale(VScale(VScale(self.end, t), t), t))

CubicBezier_evaluate_derivative(self, t) ==
    LET l == One
        n == FAdd(FAdd(l, l), l)
        two == FAdd(l, l)
        lt == FSub(l, t)
    IN  VAdd(VAdd(
            VScale(VScale(VScale(VSub(self.ctrl0, self.start), lt), lt), n),
            VScale(VScale(VScale(VScale(VSub(self.ctrl1, self.ctrl0), two), lt), t), n)),
            VScale(VScale(VScale(VSub(self.end, self.ctrl1), t), t), n))

CubicBezier_from_line_segment(line) ==
    [start |-> line.a, ctrl0 |-> line.a, ctrl1 |-> line.b, end |-> line.b]

\* mutant of CubicBezier_matrix: three for six in the third row
CubicBezier_matrix_ThreeForSix ==
    LET zero == Zero
        one == One
        three == FAdd(FAdd(one, one), one)
    IN  << <<one, zero, zero, zero>>,
           <<FNeg(three), three, zero, zero>>,
           <<three, FNeg(three), three, zero>>,
           <<FNeg(one), three, FNeg(three), one>> >>

CubicBezier_matrix ==
    LET zero == Zero
        one == One
        three == FAdd(FAdd(one, one), one)
        six == FAdd(three, three)
    IN  << <<one, zero, zero, zero>>,
           <<FNeg(three), three, zero, zero>>,
           <<three, FNeg(six), three, zero>>,
           <<FNeg(one), three, FNeg(three), one>> >>

\* mutant of CubicBezier_split: the start of the second curve recomputed with
\* two for three in its ctrl1 term
CubicBezier_split_JunctionSlip(self, t) ==
    LET l == One
        two == FAdd(l, l)
        three == FAdd(FAdd(l, l), l)
        tl == FSub(t, l)
        first == [
            start |-> self.start,
            ctrl0 |-> VSub(VScale(self.ctrl0, t), VScale(self.start, tl)),
            ctrl1 |-> VAdd(VSub(VScale(VScale(self.ctrl1, t), t),
                                VScale(VScale(VScale(self.ctrl0, two), t), tl)),
                           VScale(VScale(self.start, tl), tl)),
            end   |-> VSub(VAdd(VSub(
                        VScale(VScale(VScale(self.end, t), t), t),
                        VScale(VScale(VScale(VScale(self.ctrl1, three), t), t), tl)),
                        VScale(VScale(VScale(VScale(self.ctrl0, three), t), tl), tl)),
                        VScale(VScale(VScale(self.start, tl), tl), tl))]
        second == [
            start |-> VSub(VAdd(VSub(
                        VScale(VScale(VScale(self.end, t), t), t),
                        VScale(VScale(VScale(VScale(self.ctrl1, two), t), t), tl)),
                        VScale(VScale(VScale(VScale(self.ctrl0, three), t), tl), tl)),
                        VScale(VScale(VScale(self.start, tl), tl), tl)),
            ctrl0 |-> VAdd(VSub(VScale(VScale(self.end, t), t),
                                VScale(VScale(VScale(self.ctrl1, two), t), tl)),
                           VScale(VScale(self.ctrl0, tl), tl)),
            ctrl1 |-> VSub(VScale(self.end, t), VScale(self.ctrl1, tl)),
            end   |-> self.end]
    IN  <<first, second>>

CubicBezier_split(self, t) ==
    LET l == One
        two == FAdd(l, l)
        three == FAdd(FAdd(l, l), l)
        tl == FSub(t, l)
        first == [
            start |-> self.start,
            ctrl0 |-> VSub(VScale(self.ctrl0, t), VScale(self.start, tl)),
            ctrl1 |-> VAdd(VSub(VScale(VScale(self.ctrl1, t), t),
                                VScale(VScale(VScale(self.ctrl0, two), t), tl)),
                           VScale(VScale(self.start, tl), tl)),
            end   |-> VSub(VAdd(VSub(
                        VScale(VScale(VScale(self.end, t), t), t),
                        VScale(VScale(VScale(VScale(self.ctrl1, three), t), t), tl)),
                        VScale(VScale(VScale(VScale(self.ctrl0, three), t), tl), tl)),
                        VScale(VScale(VScale(self.start, tl), tl), tl))]
        second == [
            start |-> VSub(VAdd(VSub(
                        VScale(VScale(VScale(self.end, t), t), t),
                        VScale(VScale(VScale(VScale(self.ctrl1, three), t), t), tl)),
                        VScale(VScale(VScale(VScale(self.ctrl0, three), t), tl), tl)),
                        VScale(VScale(VScale(self.start, tl), tl), tl)),
            ctrl0 |-> VAdd(VSub(VScale(VScale(self.end, t), t),
                                VScale(VScale(VScale(self.ctrl1, two), t), tl)),
                           VScale(VScale(self.ctrl0, tl), tl)),
            ctrl1 |-> VSub(VScale(self.end, t), VScale(self.ctrl1, tl)),
            end   |-> self.end]
    IN  <<first, second>>

\* dispatch on the curve type
evaluate(self, t) ==
    IF IsQuadratic(self) THEN QuadraticBezier_evaluate(self, t)
    ELSE CubicBezier_evaluate(self, t)

evaluate_derivative(self, t) ==
    IF IsQuadratic(self) THEN QuadraticBezier_evaluate_derivative(self, t)
    ELSE CubicBezier_evaluate_derivative(self, t)

split(self, t) ==
    IF IsQuadratic(self) THEN QuadraticBezier_split(self, t)
    ELSE CubicBezier_split(self, t)

from_line_segment(kind, line) ==
    IF kind = "quadratic" THEN QuadraticBezier_from_line_segment(line)
    ELSE CubicBezier_from_line_segment(line)

matrix(kind) ==
    IF kind = "quadratic" THEN QuadraticBezier_matrix ELSE CubicBezier_matrix

normalized_tangent(self, t) == normalized(evaluate_derivative(self, t))

----------------------------------------------------------------------------
(* State *)

VARIABLES
    pc,          \* position of the running call
    self,        \* the curve the operations act on
    ret,         \* the last completed call: its arguments and its result
    step_count,  \* length_by_discretization: argument (u32 as <<high, low>> halves)
    range_end,   \* length_by_discretization: end of the range 1..step_count+2
    i,           \* length_by_discretization: loop index (u32 halves)
    length,      \* length_by_discretization: the terms summed so far
    prev_point,  \* length_by_discretization: previous sample
    samples,     \* length_by_discretization: the parameters evaluated so far
    p,           \* search: query point
    steps,       \* search: argument (u16)
    epsilon,     \* search: argument
    coarse_end,  \* search: end of the range 0..steps+1
    ci,          \* search: position of the coarse iterator
    t,           \* search: best parameter
    pt,          \* search: best point
    d,           \* search: best squared distance
    h,           \* search: half interval
    n_coarse,    \* search: coarse samples taken so far
    n_walk,      \* search: refinement rounds that adopted a probe
    n_halve      \* search: refinement rounds that halved h (saturates at MaxCount)

lengthVars == <<step_count, range_end, i, length, prev_point, samples>>

searchVars == <<p, steps, epsilon, coarse_end, ci, t, pt, d, h, n_coarse, n_walk, n_halve>>

vars == <<pc, self, ret, lengthVars, searchVars>>

None == [op |-> "none"]

Pt(x, y) == Vec2(FromInt(x), FromInt(y))

\* control points: those of the curve (0,0) (1,2) (2,0), coincident points included
Points == {Pt(0, 0), Pt(1, 2), Pt(2, 0)}

QuadraticCurves == [start : Points, ctrl : Points, end : Points]

CubicCurves == [start : Points, ctrl0 : Points, ctrl1 : Points, end : Points]

Curves == QuadraticCurves \cup CubicCurves

Lines == [a : Points, b : Points]

Kinds == {"quadratic", "cubic"}

\* parameters, inside and outside [0,1]
TValues == {Frac(-1, 1), Zero, Frac(1, 3), Frac(1, 2), One, Frac(2, 1)}

LengthIdle ==
    /\ step_count = <<0, 0>>
    /\ range_end = <<0, 0>>
    /\ i = <<0, 0>>
    /\ length = <<>>
    /\ prev_point = Pt(0, 0)
    /\ samples = <<>>

SearchIdle ==
    /\ p = Pt(0, 0)
    /\ steps = 1
    /\ epsilon = One
    /\ coarse_end = 0
    /\ ci = 0
    /\ t = One
    /\ pt = Pt(0, 0)
    /\ d = Zero
    /\ h = Zero
    /\ n_coarse = 0
    /\ n_walk = 0
    /\ n_halve = 0

----------------------------------------------------------------------------
(* The pure operations, applied to a curve *)

Init ==
    /\ pc = "idle"
    /\ self \in Curves
    /\ ret = None
    /\ LengthIdle
    /\ SearchIdle

Evaluate(tt) ==
    /\ pc = "idle"
    /\ ret' = [op |-> "evaluate", t |-> tt, value |-> evaluate(self, tt)]
    /\ UNCHANGED <<pc, self, lengthVars, searchVars>>

EvaluateDerivative(tt) ==
    /\ pc = "idle"
    /\ ret' = [op |-> "evaluate_derivative", t |-> tt,
               value |-> evaluate_derivative(self, tt)]
    /\ UNCHANGED <<pc, self, lengthVars, searchVars>>

\* the call returns a point ($Point<T>), whatever the derivative is
NormalizedTangent(tt) ==
    /\ pc = "idle"
    /\ ret' = [op |-> "normalized_tangent", t |-> tt, outcome |-> "point",
               value |-> normalized_tangent(self, tt)]
    /\ UNCHANGED <<pc, self, lengthVars, searchVars>>

FromLineSegment(kind, line) ==
    /\ pc = "idle"
    /\ self' = from_line_segment(kind, line)
    /\ ret' = [op |-> "from_line_segment", line |-> line, value |-> self']
    /\ UNCHANGED <<pc, lengthVars, searchVars>>

Matrix(kind) ==
    /\ pc = "idle"
    /\ ret' = [op |-> "matrix", kind |-> kind, value |-> matrix(kind)]
    /\ UNCHANGED <<pc, self, lengthVars, searchVars>>

Split(tt) ==
    /\ pc = "idle"
    /\ ret' = [op |-> "split", t |-> tt, value |-> split(self, tt)]
    /\ UNCHANGED <<pc, self, lengthVars, searchVars>>

Next ==
    \/ \E tt \in TValues : Evaluate(tt)
    \/ \E tt \in TValues : EvaluateDerivative(tt)
    \/ \E tt \in TValues : NormalizedTangent(tt)
    \/ \E kind \in Kinds, line \in Lines : FromLineSegment(kind, line)
    \/ \E kind \in Kinds : Matrix(kind)
    \/ \E tt \in TValues : Split(tt)

Spec == Init /\ [][Next]_vars

----------------------------------------------------------------------------
(* Integer parameters *)

\* overflow checks and debug assertions are on in a debug build only
Builds == {"debug", "release"}

U32(n) == <<n \div U32Half, n % U32Half>>

U32Max == <<U32Half - 1, U32Half - 1>>

\* u + k exceeds u32
U32Overflows(u, k) == u[1] + ((u[2] + k) \div U32Half) >= U32Half

\* u + k modulo 2^32
U32WrappingAdd(u, k) ==
    <<(u[1] + ((u[2] + k) \div U32Half)) % U32Half, (u[2] + k) % U32Half>>

U32Lt(a, b) == a[1] < b[1] \/ (a[1] = b[1] /\ a[2] < b[2])

\* T::from(u).unwrap()
U32ToFloat(u) == FromInt(u[1] * U32Half + u[2])

----------------------------------------------------------------------------
(* length_by_discretization *)

\* small counts, and the two largest u32 values
StepCounts == {U32(n) : n \in 0..MaxSteps} \cup {<<U32Half - 1, U32Half - 2>>, U32Max}

\* the sum so far plus one more term (a sum of square roots, kept term by term)
SumAdd(sum, term) == Append(sum, term)

LengthInit ==
    /\ pc = "call"
    /\ self \in Curves
    /\ ret = None
    /\ step_count \in StepCounts
    /\ range_end = <<0, 0>>
    /\ i = <<0, 0>>
    /\ length = <<>>
    /\ prev_point = Pt(0, 0)
    /\ samples = <<>>
    /\ SearchIdle

\* lines 32-34: the first sample and the range 1..step_count+2
LengthStart ==
    /\ pc = "call"
    /\ length' = <<>>
    /\ prev_point' = evaluate(self, Zero)
    /\ samples' = <<Zero>>
    /\ \E build \in Builds :
          IF build = "debug" /\ U32Overflows(step_count, 2)
          THEN /\ pc' = "panic"
               /\ UNCHANGED <<range_end, i>>
          ELSE /\ pc' = "loop"
               /\ range_end' = U32WrappingAdd(step_count, 2)
               /\ i' = U32(1)
    /\ UNCHANGED <<self, ret, step_count, searchVars>>

\* lines 35-38: one round of the loop
LengthStep ==
    /\ pc = "loop"
    /\ U32Lt(i, range_end)
    /\ LET tt == FDiv(U32ToFloat(i), FAdd(U32ToFloat(step_count), One))
           next_point == evaluate(self, tt)
       IN  /\ length' = SumAdd(length, magnitude(VSub(next_point, prev_point)))
           /\ prev_point' = next_point
           /\ samples' = Append(samples, tt)
    /\ i' = U32WrappingAdd(i, 1)
    /\ UNCHANGED <<pc, self, ret, step_count, range_end, searchVars>>

\* line 40
LengthReturn ==
    /\ pc = "loop"
    /\ ~U32Lt(i, range_end)
    /\ pc' = "done"
    /\ ret' = [op |-> "length_by_discretization", value |-> length]
    /\ UNCHANGED <<self, lengthVars, searchVars>>

LengthNext == LengthStart \/ LengthStep \/ LengthReturn

LengthSpec == LengthInit /\ [][LengthNext]_vars

----------------------------------------------------------------------------
(* binary_search_point_easy and binary_search_point *)

\* the search is run on every quadratic curve and on three cubic curves: an
\* arch, the curve of a line segment, and a curve that doubles back
SearchCurves ==
    QuadraticCurves \cup
        { [start |-> Pt(0, 0), ctrl0 |-> Pt(1, 2), ctrl1 |-> Pt(1, 2), end |-> Pt(2, 0)],
          [start |-> Pt(0, 0), ctrl0 |-> Pt(0, 0), ctrl1 |-> Pt(2, 0), end |-> Pt(2, 0)],
          [start |-> Pt(2, 0), ctrl0 |-> Pt(0, 0), ctrl1 |-> Pt(1, 2), end |-> Pt(0, 0)] }

QueryPoints == {Pt(0, 0), Pt(1, 1), Pt(1, 0), Pt(2, 2), Pt(8, 0), Pt(-1, 1)}

Epsilons == {FromInt(-1), Zero, Frac(1, 4), Frac(1, 2), One}

U16Max == U16Modulus - 1

\* the arguments <<steps, epsilon>>.  With steps = 65535 the half interval is
\* 1/131070; the exact scalars cover the calls whose refinement loop ends at
\* once (0 < h < epsilon), not the probes at 1 +- 1/131070.
SearchArgs ==
    ((0..MaxSteps) \X Epsilons)
        \cup ({U16Max} \X {e \in Epsilons : FLt(Frac(1, 2 * U16Max), e)})

SearchInit ==
    /\ pc = "call"
    /\ self \in SearchCurves
    /\ ret = None
    /\ LengthIdle
    /\ p \in QueryPoints
    /\ \E a \in SearchArgs : steps = a[1] /\ epsilon = a[2]
    /\ coarse_end = 0
    /\ ci = 0
    /\ t = One
    /\ pt = Pt(0, 0)
    /\ d = Zero
    /\ h = Zero
    /\ n_coarse = 0
    /\ n_walk = 0
    /\ n_halve = 0

\* lines 75-81 and 87-90: the coarse range, the half interval, the assertion
\* on epsilon and the first candidate
BinarySearchPointEasy ==
    /\ pc = "call"
    /\ \E build \in Builds :
          IF build = "debug" /\ (steps + 1 >= U16Modulus \/ epsilon = Zero)
          THEN /\ pc' = "panic"
               /\ UNCHANGED <<coarse_end, ci, t, pt, d, h>>
          ELSE /\ coarse_end' = (steps + 1) % U16Modulus
               /\ ci' = 0
               /\ h' = LET hh == FromInt(steps) IN FRecip(FAdd(hh, hh))
               /\ t' = One
               /\ pt' = self.end
               /\ d' = distance_squared(pt', p)
               /\ pc' = IF coarse_end' = 0 THEN "refine" ELSE "coarse"
    /\ UNCHANGED <<self, ret, lengthVars, p, steps, epsilon, n_coarse, n_walk, n_halve>>

\* lines 76-77 and 91-96: one coarse sample
CoarseStep ==
    /\ pc = "coarse"
    /\ ci < coarse_end
    /\ LET t_ == FDiv(FromInt(ci), FromInt(steps))
           pt_ == evaluate(self, t_)
           d_ == distance_squared(pt_, p)
       IN  IF FLt(d_, d)
           THEN d' = d_ /\ pt' = pt_ /\ t' = t_
           ELSE UNCHANGED <<d, pt, t>>
    /\ ci' = ci + 1
    /\ n_coarse' = n_coarse + 1
    /\ pc' = IF ci' = coarse_end THEN "refine" ELSE "coarse"
    /\ UNCHANGED <<self, ret, lengthVars, p, steps, epsilon, coarse_end, h, n_walk, n_halve>>

\* mutant of RefineRound: d1 <= d2 for d1 < d2, so a tie adopts t - h
RefineRound_TieToLower(curve, q, tt, ptt, dd, hh) ==
    LET p1 == evaluate(curve, FSub(tt, hh))
        p2 == evaluate(curve, FAdd(tt, hh))
        d1 == distance_squared(q, p1)
        d2 == distance_squared(q, p2)
    IN  IF FLt(d1, dd) \/ FLt(d2, dd)
        THEN IF ~FLt(d2, d1)
             THEN [d |-> d1, pt |-> p1, t |-> FSub(tt, hh), h |-> hh, walked |-> TRUE]
             ELSE [d |-> d2, pt |-> p2, t |-> FAdd(tt, hh), h |-> hh, walked |-> TRUE]
        ELSE [d |-> dd, pt |-> ptt, t |-> tt, h |-> FHalf(hh), walked |-> FALSE]

\* lines 99-109: one round of the refinement loop, from the current candidate
RefineRound(curve, q, tt, ptt, dd, hh) ==
    LET p1 == evaluate(curve, FSub(tt, hh))
        p2 == evaluate(curve, FAdd(tt, hh))
        d1 == distance_squared(q, p1)
        d2 == distance_squared(q, p2)
    IN  IF FLt(d1, dd) \/ FLt(d2, dd)
        THEN IF FLt(d1, d2)
             THEN [d |-> d1, pt |-> p1, t |-> FSub(tt, hh), h |-> hh, walked |-> TRUE]
             ELSE [d |-> d2, pt |-> p2, t |-> FAdd(tt, hh), h |-> hh, walked |-> TRUE]
        ELSE [d |-> dd, pt |-> ptt, t |-> tt, h |-> FHalf(hh), walked |-> FALSE]

Saturate(n) == IF n < MaxCount THEN n + 1 ELSE n

RefineStep ==
    /\ pc = "refine"
    /\ FGe(h, epsilon)
    /\ LET r == RefineRound(self, p, t, pt, d, h)
       IN  /\ d' = r.d
           /\ pt' = r.pt
           /\ t' = r.t
           /\ h' = r.h
           /\ n_walk' = IF r.walked THEN n_walk + 1 ELSE n_walk
           /\ n_halve' = IF r.walked THEN n_halve ELSE Saturate(n_halve)
    /\ UNCHANGED <<pc, self, ret, lengthVars, p, steps, epsilon, coarse_end, ci, n_coarse>>

\* line 111
SearchReturn ==
    /\ pc = "refine"
    /\ ~FGe(h, epsilon)
    /\ pc' = "done"
    /\ ret' = [op |-> "binary_search_point_easy", value |-> <<t, pt>>]
    /\ UNCHANGED <<self, lengthVars, searchVars>>

SearchNext == BinarySearchPointEasy \/ CoarseStep \/ RefineStep \/ SearchReturn

SearchSpec == SearchInit /\ [][SearchNext]_vars

----------------------------------------------------------------------------
(* Claims about the pure operations, checked under Spec *)

SValues == TValues

\* a + (b - a) * w
Lerp(a, b, w) == VAdd(a, VScale(VSub(b, a), w))

Cube(x) == FMul(FMul(x, x), x)

\* the weight of b in the curve made from the segment {a, b}, at tt
SegmentWeight(c, tt) ==
    IF IsQuadratic(c) THEN FMul(tt, tt)
    ELSE FSub(FMul(FromInt(3), FMul(tt, tt)), FMul(FromInt(2), Cube(tt)))

\* C1 as stated: the curve made by from_line_segment evaluates, at every t,
\* to the linear interpolation a + (b - a) * t (quadratic and cubic).
C1_LinearInterpolation ==
    ret.op = "from_line_segment" =>
        \A tt \in TValues :
            evaluate(ret.value, tt) = Lerp(ret.line.a, ret.line.b, tt)

\* C1 amended: the curve made by from_line_segment evaluates at t to
\* a + (b - a) * t^2 (quadratic) and a + (b - a) * (3 t^2 - 2 t^3) (cubic):
\* the segment's line, with a at t = 0 and b at t = 1, not linear in t.
C1_SegmentParametrization ==
    ret.op = "from_line_segment" =>
        /\ evaluate(ret.value, Zero) = ret.line.a
        /\ evaluate(ret.value, One) = ret.line.b
        /\ \A tt \in TValues :
               evaluate(ret.value, tt) =
                   Lerp(ret.line.a, ret.line.b, SegmentWeight(ret.value, tt))

\* a quadratic curve made from a segment with distinct endpoints, whose value at
\* 1/2 is a + (b - a)/4 and not the midpoint
C1_Witness ==
    /\ ret.op = "from_line_segment"
    /\ ret.line.a # ret.line.b
    /\ IsQuadratic(ret.value)
    /\ self = ret.value
    /\ evaluate(self, Frac(1, 2)) = Lerp(ret.line.a, ret.line.b, Frac(1, 4))
    /\ evaluate(self, Frac(1, 2)) # Lerp(ret.line.a, ret.line.b, Frac(1, 2))

\* C2: split round trip. With (first, second) = split(curve, t), for every s:
\* evaluate(first, s) = evaluate(curve, s*t) and
\* evaluate(second, s) = evaluate(curve, t + s*(1 - t)), also for t outside [0,1].
C2_SplitRoundTrip ==
    ret.op = "split" =>
        \A s \in SValues :
            /\ evaluate(ret.value[1], s) = evaluate(self, FMul(s, ret.t))
            /\ evaluate(ret.value[2], s) =
                   evaluate(self, FAdd(ret.t, FMul(s, FSub(One, ret.t))))

\* a split outside [0,1] of a curve whose control points are all distinct
C2_Witness ==
    /\ ret.op = "split"
    /\ ret.t = FromInt(2)
    /\ ~IsQuadratic(self)
    /\ Cardinality({self.start, self.ctrl0, self.ctrl1, self.end}) = 3
    /\ evaluate(ret.value[2], Frac(1, 2)) = evaluate(self, Frac(3, 2))

\* C3: split junction. first.start = curve.start, second.end = curve.end, and
\* first.end is the same value as second.start and equals evaluate(curve, t), so
\* evaluate(first, 1) = evaluate(second, 0) = evaluate(curve, t).
C3_SplitJunction ==
    ret.op = "split" =>
        LET first == ret.value[1]
            second == ret.value[2]
        IN  /\ first.start = self.start
            /\ second.end = self.end
            /\ first.end = second.start
            /\ first.end = evaluate(self, ret.t)
            /\ evaluate(first, One) = evaluate(self, ret.t)
            /\ evaluate(second, Zero) = evaluate(self, ret.t)

\* a split at an interior parameter whose junction is none of the control points
C3_Witness ==
    /\ ret.op = "split"
    /\ ret.t = Frac(1, 3)
    /\ ~IsQuadratic(self)
    /\ ret.value[1].end \notin {self.start, self.ctrl0, self.ctrl1, self.end}
    /\ ret.value[1].end = ret.value[2].start

\* C4 as stated: when evaluate_derivative(curve, t) has zero magnitude,
\* normalized_tangent ends in a degenerate-direction outcome and never returns
\* an ordinary point value.
C4_DegenerateDirection ==
    (ret.op = "normalized_tangent" /\ magnitude(evaluate_derivative(self, ret.t)) = Zero)
        => ret.outcome # "point"

\* [1, t, t^2, ...] as a row vector of n entries
RECURSIVE Monomials(_, _)
Monomials(tt, n) ==
    IF n = 0 THEN <<>>
    ELSE IF n = 1 THEN <<One>>
    ELSE LET m == Monomials(tt, n - 1) IN Append(m, FMul(m[n - 1], tt))

RECURSIVE ScalarSum(_, _)
ScalarSum(f, n) == IF n = 0 THEN Zero ELSE FAdd(ScalarSum(f, n - 1), f[n])

\* row vector times matrix
RowTimesMatrix(row, m) ==
    [j \in 1..Len(row) |-> ScalarSum([k \in 1..Len(row) |-> FMul(row[k], m[k][j])], Len(row))]

RECURSIVE PointSum(_, _)
PointSum(f, n) == IF n = 0 THEN Pt(0, 0) ELSE VAdd(PointSum(f, n - 1), f[n])

\* dot product of a row of weights with the vector of control points
DotPoints(w, pts) == PointSum([k \in 1..Len(w) |-> VScale(pts[k], w[k])], Len(w))

ControlPoints(c) ==
    IF IsQuadratic(c) THEN <<c.start, c.ctrl, c.end>>
    ELSE <<c.start, c.ctrl0, c.ctrl1, c.end>>

KindOf(c) == IF IsQuadratic(c) THEN "quadratic" ELSE "cubic"

BernsteinWeights(kind, tt) ==
    LET u == FSub(One, tt)
    IN  IF kind = "quadratic"
        THEN <<FMul(u, u), FMul(FromInt(2), FMul(u, tt)), FMul(tt, tt)>>
        ELSE <<Cube(u), FMul(FromInt(3), FMul(FMul(u, u), tt)),
               FMul(FromInt(3), FMul(u, FMul(tt, tt))), Cube(tt)>>

----------------------------------------------------------------------------
(* Claims about length_by_discretization, checked under LengthSpec *)

IsZeroSum(sum) == \A k \in 1..Len(sum) : sum[k] = Zero

\* what a completed call has done, for a step count below 2^16
LengthContract ==
    /\ step_count[1] = 0
    /\ Len(samples) = step_count[2] + 2
    /\ \A k \in 1..Len(samples) : samples[k] = Frac(k - 1, step_count[2] + 1)
    /\ samples[1] = Zero
    /\ samples[Len(samples)] = One
    /\ ret.op = "length_by_discretization"
    /\ Len(ret.value) = Len(samples) - 1
    /\ \A k \in 1..Len(ret.value) :
           ret.value[k] =
               magnitude(VSub(evaluate(self, samples[k + 1]), evaluate(self, samples[k])))
    /\ step_count = U32(0) =>
           /\ samples = <<Zero, One>>
           /\ self.start # self.end => ~IsZeroSum(ret.value)

\* C8 as stated: for every u32 step_count the call evaluates the curve at exactly
\* the step_count + 2 parameters i/(step_count + 1), i = 0..step_count + 1 (first
\* 0, last 1), and returns the sum of the distances between consecutive samples;
\* step_count = 0 uses start and end, with a nonzero result when they differ.
C8_SamplesAndSum ==
    pc \in {"done", "panic"} => (pc = "done" /\ LengthContract)

\* the same for the step counts whose step_count + 2 fits u32
C8_WithoutOverflow ==
    (pc \in {"done", "panic"} /\ ~U32Overflows(step_count, 2)) =>
        (pc = "done" /\ LengthContract)

----------------------------------------------------------------------------
(* Claims about the projection search, checked under SearchSpec *)

\* C5 as stated: for every curve, P, steps and nonzero epsilon the refinement
\* loop reaches h < epsilon and the search returns. A round is a function of
\* (t, point, d, h) alone, so the loop can only end if no round that is still to
\* run (h >= epsilon) leaves all of them as they are.
C5_Terminates ==
    (epsilon # Zero /\ pc = "refine" /\ FGe(h, epsilon)) =>
        LET r == RefineRound(self, p, t, pt, d, h)
        IN  <<r.t, r.pt, r.d, r.h>> # <<t, pt, d, h>>

Total == n_coarse + n_walk + n_halve

\* C6 as stated: for steps >= 1 and epsilon > 0 the rounds of a completed search
\* (coarse samples, walking rounds, halving rounds) number at most
\* steps + log2(1/(epsilon*steps)), i.e. 2^(Total - steps) * epsilon * steps <= 1.
\* (Total <= steps happens only when steps + 1 wraps to 0; 2^20 then exceeds
\* epsilon * steps for every epsilon drawn.)
C6_IterationBound ==
    (pc = "done" /\ steps >= 1 /\ FLt(Zero, epsilon)) =>
        LET es == FMul(epsilon, FromInt(steps))
        IN  IF Total > steps
            THEN ~FLt(One, FMul(FromInt(Pow2(Total - steps)), es))
            ELSE ~FLt(FromInt(Pow2(IF steps - Total < 20 THEN steps - Total ELSE 20)), es)

\* 1/(2*steps*2^k)
HalfInterval(k) == Frac(1, 2 * steps * Pow2(k))

\* C6 amended: for steps >= 1 and epsilon > 0 a completed search has taken at
\* most steps + 1 coarse samples and exactly k halving rounds, k the least
\* k >= 0 with 1/(2*steps*2^k) < epsilon, hence at most
\* max(0, log2(1/(epsilon*steps))) of them; the walking rounds come on top.
C6_HalvingRounds ==
    (pc = "done" /\ steps >= 1 /\ FLt(Zero, epsilon)) =>
        /\ n_coarse <= steps + 1
        /\ n_halve < MaxCount
        /\ h = HalfInterval(n_halve)
        /\ FLt(HalfInterval(n_halve), epsilon)
        /\ n_halve > 0 => ~FLt(HalfInterval(n_halve - 1), epsilon)
        /\ n_halve > 0 =>
               ~FLt(One, FMul(FromInt(Pow2(n_halve)), FMul(epsilon, FromInt(steps))))

\* a completed search that walked twice beyond t = 1 and took more rounds than
\* steps + log2(1/(epsilon*steps))
C6_Witness ==
    /\ pc = "done"
    /\ steps = 1
    /\ epsilon = Frac(1, 2)
    /\ n_walk >= 2
    /\ n_halve = 1
    /\ FLt(One, t)
    /\ Total > steps + 1

FMin(a, b) == IF FLt(a, b) THEN a ELSE b

\* C9: a refinement round with probes d1 at t-h and d2 at t+h. If d1 < d or
\* d2 < d the closer probe is adopted (t+h when d1 = d2), d becomes min(d1, d2),
\* h is unchanged and t is not clamped; otherwise t, point and d are unchanged
\* and h becomes h/2 (0 when h/2 is below the smallest positive scalar).
\* h never increases.
C9_RefinementRound ==
    [][(pc = "refine" /\ FGe(h, epsilon)) =>
        LET d1 == distance_squared(p, evaluate(self, FSub(t, h)))
            d2 == distance_squared(p, evaluate(self, FAdd(t, h)))
            half == FDiv(h, FromInt(2))
        IN  /\ pc' = "refine"
            /\ IF FLt(d1, d) \/ FLt(d2, d)
               THEN /\ d' = FMin(d1, d2)
                    /\ t' = IF FLt(d1, d2) THEN FSub(t, h) ELSE FAdd(t, h)
                    /\ pt' = evaluate(self, t')
                    /\ h' = h
               ELSE /\ t' = t
                    /\ pt' = pt
                    /\ d' = d
                    /\ \/ h' = half
                       \/ h' = Zero /\ FLt(half, Frac(1, Pow2(MinExp)))
            /\ ~FLt(h, h')]_vars

\* after a walking round on a tie (d1 = d2 < d, t+h adopted), a halving round
\* and a walk that left [0,1]
C9_Witness ==
    /\ pc = "refine"
    /\ n_walk >= 1
    /\ n_halve >= 1
    /\ FLt(One, t)
    /\ FLt(Zero, h)
    /\ FLt(h, FRecip(FromInt(2 * steps)))

\* a state right after a walking round that adopted t+h on a tie
C9_TieWitness ==
    /\ pc = "refine"
    /\ n_walk = 1
    /\ n_halve = 0
    /\ distance_squared(p, evaluate(self, FSub(t, FAdd(h, h)))) = d

SearchActive == pc \in {"coarse", "refine", "done"}

Dist(tt) == distance_squared(evaluate(self, tt), p)

\* the coarse indices compared: all of 0..steps for a small steps, the two end
\* samples (t = 0 and t = 1) for steps = 65535
CoarseIndices == IF steps <= MaxSteps + 1 THEN 0..steps ELSE {0, steps}

CoarseT(k) == FDiv(FromInt(k), FromInt(steps))

\* the sample the coarse scan must end on: t = 1 unless a sample is strictly
\* closer than the end point, and then the first of the closest samples
CoarseWinner ==
    IF \A k \in CoarseIndices : ~FLt(Dist(CoarseT(k)), distance_squared(self.end, p))
    THEN One
    ELSE CoarseT(CHOOSE k \in CoarseIndices :
            /\ \A j \in CoarseIndices : ~FLt(Dist(CoarseT(j)), Dist(CoarseT(k)))
            /\ \A j \in CoarseIndices : j < k => FLt(Dist(CoarseT(k)), Dist(CoarseT(j))))

C10_State ==
    /\ SearchActive => (pt = evaluate(self, t) /\ d = distance_squared(pt, p))
    /\ (pc = "refine" /\ n_walk = 0) => t = CoarseWinner
    /\ pc = "done" =>
           /\ ~FLt(distance_squared(self.end, p), d)
           /\ \A k \in CoarseIndices : ~FLt(Dist(CoarseT(k)), d)

C10_Step ==
    /\ (pc = "call" /\ SearchActive') => (t' = One /\ pt' = self.end)
    /\ (SearchActive /\ SearchActive') => ~FLt(d, d')
    /\ (pc = "coarse" /\ <<t, pt, d>>' # <<t, pt, d>>) => FLt(d', d)

\* C10 as stated: throughout the coarse scan and the refinement loop
\* point = evaluate(curve, t) and d = |point - P|^2, starting from t = 1,
\* point = curve.end; d never increases; the coarse scan replaces the candidate
\* only on a strictly smaller distance (t = 1 wins ties, and an earlier sample
\* wins ties against a later one); the returned point is at least as close to P
\* as curve.end and as every coarse sample evaluate(curve, i/steps), i = 0..steps.
C10_SearchInvariant == []C10_State /\ [][C10_Step]_vars

\* the same for the calls whose steps + 1 fits u16
C10_WithoutOverflow ==
    /\ [](steps + 1 < U16Modulus => C10_State)
    /\ [][steps + 1 < U16Modulus => C10_Step]_vars

=============================================================================
